---- MODULE Spec2Model ----
(***************************************************************************)
(* Model of psybrobot.py: a Telegram bot that records music links in a     *)
(* Google spreadsheet (one worksheet "Master", one per hashtag, and        *)
(* "Undefined").                                                           *)
(*                                                                         *)
(* Text is modelled as a sequence of characters (one-character strings);   *)
(* a value that the program never looks into (a URL, a header caption, a   *)
(* timestamp) is a one-element sequence holding the whole text.  A         *)
(* worksheet is the sequence of its rows, a row the sequence of its cells. *)
(* Every gspread call is one step on the store.  It succeeds unless the    *)
(* worksheet is missing, the title of a new worksheet is taken, or the     *)
(* environment lets it raise (an update of row 1 wider than the grid       *)
(* widens the grid).  A metadata provider answers what the environment     *)
(* gives it: no answer, or the part of the payload the program reads.      *)
(* Columns the program copies from the update (notes, sharer, chat,        *)
(* message link) are written as empty cells.                               *)
(*                                                                         *)
(* Spec and SpecSeq run the two handlers one update at a time with every   *)
(* provider unreachable; SpecNet varies the providers' answers, SpecFail   *)
(* lets one store call raise, SpecConc runs two bot processes against one  *)
(* spreadsheet call by call; SpecNorm and SpecMeta apply the worksheet     *)
(* naming and the consolidation of provider answers on their own.          *)
(***************************************************************************)
EXTENDS Integers, Sequences, FiniteSets, TLC

\* ---------------------------------------------------------------- bounds
\* updates handled in one run: with every kind of message, and with plain ones
MaxSteps    == 2
MaxSeqSteps == 4
\* length of the hashtags whose worksheet name is computed on its own
MaxTagLen   == 3

\* ------------------------------------------------------- text primitives
LowerChars == <<"a","b","c","d","e","f","h","i","l","m","n","o","r","s","t","u">>
UpperChars == <<"A","B","C","D","E","F","H","I","L","M","N","O","R","S","T","U">>

\* str.upper / str.lower on one character
CharUpper(c) ==
    IF \E i \in 1..Len(LowerChars) : LowerChars[i] = c
    THEN UpperChars[CHOOSE i \in 1..Len(LowerChars) : LowerChars[i] = c]
    ELSE c
CharLower(c) ==
    IF \E i \in 1..Len(UpperChars) : UpperChars[i] = c
    THEN LowerChars[CHOOSE i \in 1..Len(UpperChars) : UpperChars[i] = c]
    ELSE c
StrUpper(s) == [i \in 1..Len(s) |-> CharUpper(s[i])]
StrLower(s) == [i \in 1..Len(s) |-> CharLower(s[i])]

\* str.lstrip(ch)
RECURSIVE LStrip(_, _)
LStrip(s, ch) == IF s # <<>> /\ Head(s) = ch THEN LStrip(Tail(s), ch) ELSE s

\* str.strip(): leading and trailing blanks removed
RECURSIVE RStripBlank(_)
RStripBlank(s) ==
    IF s # <<>> /\ s[Len(s)] = " " THEN RStripBlank(SubSeq(s, 1, Len(s) - 1)) ELSE s
Strip(s) == RStripBlank(LStrip(s, " "))

\* " ".join(list)
RECURSIVE Join(_)
Join(list) ==
    IF list = <<>> THEN <<>>
    ELSE IF Len(list) = 1 THEN list[1]
    ELSE list[1] \o <<" ">> \o Join(Tail(list))

\* str.split(): the maximal blank-free pieces, in order
RECURSIVE SplitFrom(_, _, _)
SplitFrom(s, cur, acc) ==
    IF s = <<>> THEN (IF cur = <<>> THEN acc ELSE Append(acc, cur))
    ELSE IF Head(s) = " "
         THEN SplitFrom(Tail(s), <<>>, IF cur = <<>> THEN acc ELSE Append(acc, cur))
         ELSE SplitFrom(Tail(s), Append(cur, Head(s)), acc)
Split(s) == SplitFrom(s, <<>>, <<>>)

\* text the program never looks into
Opaque(x) == <<x>>

\* ------------------------------------------------------ program constants
MASTER_SHEET    == <<"M","a","s","t","e","r">>
UNDEFINED_SHEET == <<"U","n","d","e","f","i","n","e","d">>

HEADERS_MASTER ==
    << Opaque("Timestamp"), Opaque("SharedBy"), Opaque("SourceChat"),
       Opaque("MessageLink"), Opaque("Platform"), Opaque("Artist"),
       Opaque("Title"), Opaque("URL"), Opaque("Tags"), Opaque("Notes"),
       Opaque("Álbum"), Opaque("Año") >>

REQUIRED_COLS ==
    << Opaque("Álbum"), Opaque("Año"), Opaque("Tono"), Opaque("BPM") >>

URL_COL == 8

PLATFORM_HOSTS ==
    [ youtube    |-> {"youtu.be", "youtube.com", "www.youtube.com",
                      "m.youtube.com", "music.youtube.com"},
      spotify    |-> {"open.spotify.com", "spotify.link"},
      soundcloud |-> {"soundcloud.com"},
      appleMusic |-> {"apple.com", "music.apple.com"},
      bandcamp   |-> {"bandcamp.com"} ]

\* the reserved control tag, as TAG_RE and append_row spell it
CONTROL_WORD == <<"a","s","c","u","c","h","a">>
CONTROL_TAG  == <<"#">> \o CONTROL_WORD

\* ------------------------------------------------------------ the store
\* A session state s is [store, cache, log, http, env, failed]: store maps the
\* title of each existing worksheet to its rows, cache is
\* CACHE_URLS_REGISTERED, log lists the store calls made so far, oldest first,
\* and http the metadata provider calls. env is what the outside world does
\* during the update: the providers' answers and the store call that raises,
\* if any. failed says that an exception is propagating out of the handler:
\* nothing after the raising call runs.
Call(op, sheet, row) == [op |-> op, sheet |-> sheet, row |-> row]
Logged(s, op, sheet, row) == [s EXCEPT !.log = Append(@, Call(op, sheet, row))]

\* the store call env lets raise (gspread APIError): the nth call of op on
\* the worksheet during the update; NoFault for none
Fault(op, sheet, nth) == [op |-> op, sheet |-> sheet, nth |-> nth]
NoFault == Fault("none", <<>>, 0)
CallsOf(l, op, sheet) == SelectSeq(l, LAMBDA c : c.op = op /\ c.sheet = sheet)
\* a writing store call: it raises, or it leaves the store as done has it
Write(s, op, sheet, row, done) ==
    IF s.failed THEN s
    ELSE IF s.env.fault = Fault(op, sheet, Len(CallsOf(s.log, op, sheet)) + 1)
    THEN [Logged(s, "raised", sheet, row) EXCEPT !.failed = TRUE]
    ELSE Logged(done, op, sheet, row)

\* gspread Worksheet.row_values(1): row 1 without its trailing empty cells
RECURSIVE TrimTrailingEmpty(_)
TrimTrailingEmpty(r) ==
    IF r # <<>> /\ r[Len(r)] = <<>> THEN TrimTrailingEmpty(SubSeq(r, 1, Len(r) - 1)) ELSE r
row_values(ws, n) == IF n <= Len(ws) THEN TrimTrailingEmpty(ws[n]) ELSE <<>>

\* gspread Worksheet.col_values(c): the cells of column c, top to bottom
col_values(ws, c) ==
    TrimTrailingEmpty([i \in 1..Len(ws) |-> IF c <= Len(ws[i]) THEN ws[i][c] ELSE <<>>])

\* sh.add_worksheet(title=sheet_name, ...): the spreadsheet refuses a title
\* it already has (APIError)
add_worksheet(s, name) ==
    IF ~s.failed /\ name \in DOMAIN s.store
    THEN [Logged(s, "raised", name, <<>>) EXCEPT !.failed = TRUE]
    ELSE Write(s, "add_worksheet", name, <<>>, [s EXCEPT !.store = (name :> <<>>) @@ @])

\* ws.append_row(row): the row goes below the last row that holds data
ws_append_row(s, name, row) ==
    Write(s, "append_row", name, row, [s EXCEPT !.store[name] = Append(@, row)])

\* ws.clear()
ws_clear(s, name) ==
    Write(s, "clear", name, <<>>, [s EXCEPT !.store[name] = <<>>])

\* ws.update(range_name="1:1", values=[headers])
ws_update_row1(s, name, headers) ==
    Write(s, "update", name, headers,
          [s EXCEPT !.store[name] =
                IF @ = <<>> THEN <<headers>> ELSE [@ EXCEPT ![1] = headers]])

InSeq(x, seq) == \E i \in 1..Len(seq) : seq[i] = x

ensure_headers_in_sheet(s, sheet_name) ==
    IF s.failed THEN s
    ELSE IF sheet_name \notin DOMAIN s.store
    THEN ws_append_row(add_worksheet(s, sheet_name), sheet_name, HEADERS_MASTER)
    ELSE LET first_row == row_values(s.store[sheet_name], 1)
         IN  IF [i \in 1..Len(first_row) |-> Strip(first_row[i])] # HEADERS_MASTER
             THEN ws_append_row(ws_clear(s, sheet_name), sheet_name, HEADERS_MASTER)
             ELSE s

RECURSIVE AddMissing(_, _)
AddMissing(headers, cols) ==
    IF cols = <<>> THEN headers
    ELSE AddMissing(IF InSeq(Head(cols), headers) THEN headers
                    ELSE Append(headers, Head(cols)),
                    Tail(cols))

ensure_columns(s, sheet_name, required_cols) ==
    LET headers == row_values(s.store[sheet_name], 1)
        wanted  == AddMissing(headers, required_cols)
    IN  IF s.failed THEN s
        ELSE IF wanted # headers THEN ws_update_row1(s, sheet_name, wanted) ELSE s

\* row_exists_by_url_in_sheet reading column 7 (Title) instead of column 8
row_exists_wrong_column(s, url, sheet_name) ==
    IF s.failed THEN [s |-> s, found |-> FALSE]
    ELSE IF sheet_name = MASTER_SHEET /\ url \in s.cache
    THEN [s |-> s, found |-> TRUE]
    ELSE IF sheet_name \notin DOMAIN s.store
    THEN [s |-> Logged(s, "worksheet", sheet_name, <<>>), found |-> FALSE]
    ELSE LET urls    == col_values(s.store[sheet_name], URL_COL - 1)
             url_set == { Strip(urls[i]) : i \in { j \in 1..Len(urls) : urls[j] # <<>> } }
             read    == Logged(s, "col_values", sheet_name, <<>>)
         IN  [s     |-> IF sheet_name = MASTER_SHEET
                        THEN [read EXCEPT !.cache = url_set] ELSE read,
              found |-> Strip(url) \in url_set]

\* row_exists_by_url_in_sheet adding what it read to the cache
row_exists_cache_grows(s, url, sheet_name) ==
    IF s.failed THEN [s |-> s, found |-> FALSE]
    ELSE IF sheet_name = MASTER_SHEET /\ url \in s.cache
    THEN [s |-> s, found |-> TRUE]
    ELSE IF sheet_name \notin DOMAIN s.store
    THEN [s |-> Logged(s, "worksheet", sheet_name, <<>>), found |-> FALSE]
    ELSE LET urls    == col_values(s.store[sheet_name], URL_COL)
             url_set == { Strip(urls[i]) : i \in { j \in 1..Len(urls) : urls[j] # <<>> } }
             read    == Logged(s, "col_values", sheet_name, <<>>)
         IN  [s     |-> IF sheet_name = MASTER_SHEET
                        THEN [read EXCEPT !.cache = @ \cup url_set] ELSE read,
              found |-> Strip(url) \in url_set]

\* row_exists_by_url_in_sheet answering from the cache for every worksheet
row_exists_cache_for_all(s, url, sheet_name) ==
    IF s.failed THEN [s |-> s, found |-> FALSE]
    ELSE IF url \in s.cache
    THEN [s |-> s, found |-> TRUE]
    ELSE IF sheet_name \notin DOMAIN s.store
    THEN [s |-> Logged(s, "worksheet", sheet_name, <<>>), found |-> FALSE]
    ELSE LET urls    == col_values(s.store[sheet_name], URL_COL)
             url_set == { Strip(urls[i]) : i \in { j \in 1..Len(urls) : urls[j] # <<>> } }
             read    == Logged(s, "col_values", sheet_name, <<>>)
         IN  [s     |-> IF sheet_name = MASTER_SHEET
                        THEN [read EXCEPT !.cache = url_set] ELSE read,
              found |-> Strip(url) \in url_set]

\* row_exists_by_url_in_sheet creating the worksheet it does not find
row_exists_get_or_create(s, url, sheet_name) ==
    IF s.failed THEN [s |-> s, found |-> FALSE]
    ELSE IF sheet_name = MASTER_SHEET /\ url \in s.cache
    THEN [s |-> s, found |-> TRUE]
    ELSE IF sheet_name \notin DOMAIN s.store
    THEN [s |-> add_worksheet(Logged(s, "worksheet", sheet_name, <<>>), sheet_name),
          found |-> FALSE]
    ELSE LET urls    == col_values(s.store[sheet_name], URL_COL)
             url_set == { Strip(urls[i]) : i \in { j \in 1..Len(urls) : urls[j] # <<>> } }
             read    == Logged(s, "col_values", sheet_name, <<>>)
         IN  [s     |-> IF sheet_name = MASTER_SHEET
                        THEN [read EXCEPT !.cache = url_set] ELSE read,
              found |-> Strip(url) \in url_set]

\* returns [s, found]
row_exists_by_url_in_sheet(s, url, sheet_name) ==
    IF s.failed THEN [s |-> s, found |-> FALSE]
    ELSE IF sheet_name = MASTER_SHEET /\ url \in s.cache
    THEN [s |-> s, found |-> TRUE]
    ELSE IF sheet_name \notin DOMAIN s.store
    THEN [s |-> Logged(s, "worksheet", sheet_name, <<>>), found |-> FALSE]
    ELSE LET urls    == col_values(s.store[sheet_name], URL_COL)
             url_set == { Strip(urls[i]) : i \in { j \in 1..Len(urls) : urls[j] # <<>> } }
             read    == Logged(s, "col_values", sheet_name, <<>>)
         IN  [s     |-> IF sheet_name = MASTER_SHEET
                        THEN [read EXCEPT !.cache = url_set] ELSE read,
              found |-> Strip(url) \in url_set]

\* append_row_to_sheet sending the row a second time (a retried append)
append_row_to_sheet_twice(s, sheet_name, row) ==
    ws_append_row(
        ws_append_row(
            ensure_columns(ensure_headers_in_sheet(s, sheet_name), sheet_name, REQUIRED_COLS),
            sheet_name, row),
        sheet_name, row)

append_row_to_sheet(s, sheet_name, row) ==
    ws_append_row(
        ensure_columns(ensure_headers_in_sheet(s, sheet_name), sheet_name, REQUIRED_COLS),
        sheet_name, row)

\* ------------------------------------------------------------- messages
\* A message text is the sequence of its blank-separated fragments: the
\* command word, a URL, or a hashtag "#word".
Tok(kind, v) == [kind |-> kind, v |-> v]
CmdTok       == Tok("cmd", Opaque("/add"))
UrlTok(u)    == Tok("url", Opaque(u))
TagTok(w)    == Tok("tag", <<"#">> \o w)

U1 == "https://youtu.be/a"
U2 == "https://soundcloud.com/b"
U3 == "https://open.spotify.com/c"
UX == "https://example.com/x"

\* urlparse(url).netloc.lower() of the URLs above
Netloc(url) ==
    CASE url = Opaque(U1) -> "youtu.be"
      [] url = Opaque(U2) -> "soundcloud.com"
      [] url = Opaque(U3) -> "open.spotify.com"
      [] url = Opaque(UX) -> "example.com"
      [] OTHER            -> ""

NoPlatform == ""

detect_platform(url) ==
    LET host == Netloc(url)
        hits == { p \in DOMAIN PLATFORM_HOSTS : host \in PLATFORM_HOSTS[p] }
    IN  IF hits = {} THEN NoPlatform ELSE CHOOSE p \in hits : TRUE

\* URL_RE.finditer(text): the URLs of the text, in order
URL_RE_finditer(text) ==
    LET IsUrl(tok) == tok.kind = "url"
        urls == SelectSeq(text, IsUrl)
    IN  [i \in 1..Len(urls) |-> urls[i].v]

\* TAG_RE.findall(text), TAG_RE = #(?!ascucha\b)\w+ (case-sensitive): every
\* hashtag, "#" included, except the one spelled exactly #ascucha
TAG_RE_findall(text) ==
    LET IsTag(tok) == tok.kind = "tag" /\ Tail(tok.v) # CONTROL_WORD
        tags == SelectSeq(text, IsTag)
    IN  [i \in 1..Len(tags) |-> tags[i].v]

\* ASC_LINK_RE.finditer(text), re.IGNORECASE: the URLs that directly follow
\* the control tag, in any letter case
ASC_LINK_RE_finditer(text) ==
    LET Hit(i) == /\ i < Len(text)
                  /\ text[i].kind = "tag"
                  /\ StrLower(text[i].v) = CONTROL_TAG
                  /\ text[i + 1].kind = "url"
        RECURSIVE From(_)
        From(i) == IF i >= Len(text) THEN <<>>
                   ELSE IF Hit(i) THEN <<text[i + 1].v>> \o From(i + 1)
                   ELSE From(i + 1)
    IN  From(1)

\* tags = [t for t in tags_raw if t.lower() != "ascucha"]
\* tags_str = " ".join(f"#{t}" for t in tags) if tags else ""
tags_str_of(text) ==
    LET tags_raw  == TAG_RE_findall(text)
        Keep(t)   == StrLower(t) # CONTROL_WORD
        tags      == SelectSeq(tags_raw, Keep)
    IN  Join([i \in 1..Len(tags) |-> <<"#">> \o tags[i]])

\* ------------------------------------------------------------- metadata
\* A dict is a function on the keys it holds; d.get(k) of a missing key and an
\* empty string are both the empty text here, as every reader tests truth only.
EmptyDict == <<>>
Get(d, k) == IF k \in DOMAIN d THEN d[k] ELSE <<>>

\* [m.get(k) for m in metadata_list if m.get(k)]
FieldValues(metadata_list, k) ==
    LET IsSet(m) == Get(m, k) # <<>>
        given == SelectSeq(metadata_list, IsSet)
    IN  [i \in 1..Len(given) |-> Get(given[i], k)]

\* Counter(values): the distinct values in the order first seen ...
RECURSIVE CounterKeys(_, _)
CounterKeys(values, seen) ==
    IF values = <<>> THEN seen
    ELSE CounterKeys(Tail(values),
                     IF InSeq(Head(values), seen) THEN seen ELSE Append(seen, Head(values)))
\* ... and how often each occurs
CounterCount(values, v) == Cardinality({ i \in 1..Len(values) : values[i] = v })

\* Counter.most_common(n): by falling count, equal counts in the order first seen
RECURSIVE MostCommonOf(_, _, _)
MostCommonOf(keys, values, n) ==
    IF n = 0 \/ keys = <<>> THEN <<>>
    ELSE LET top  == CHOOSE i \in 1..Len(keys) :
                        /\ \A j \in 1..Len(keys) :
                              CounterCount(values, keys[j]) <= CounterCount(values, keys[i])
                        /\ \A j \in 1..(i - 1) :
                              CounterCount(values, keys[j]) < CounterCount(values, keys[i])
             rest == SubSeq(keys, 1, top - 1) \o SubSeq(keys, top + 1, Len(keys))
         IN  <<<<keys[top], CounterCount(values, keys[top])>>>>
             \o MostCommonOf(rest, values, n - 1)
most_common(values, n) == MostCommonOf(CounterKeys(values, <<>>), values, n)

TieJoin(a, b) == a \o Opaque(" ó ") \o b

\* consolidate_field without the tie branch: the first of the most common
consolidate_field_no_tie(metadata_list, k) ==
    LET values == FieldValues(metadata_list, k)
        common == most_common(values, 2)
    IN  IF values = <<>> THEN <<>> ELSE common[1][1]

\* one of the three blocks of consolidate_metadata (year, bpm, key)
consolidate_field(metadata_list, k) ==
    LET values == FieldValues(metadata_list, k)
        common == most_common(values, 2)
    IN  IF values = <<>> THEN <<>>
        ELSE IF Len(common) = 1 THEN common[1][1]
        ELSE IF Len(common) > 1 /\ common[1][2] = common[2][2]
             THEN TieJoin(common[1][1], common[2][1])
        ELSE common[1][1]

consolidate_metadata(metadata_list) ==
    [ year |-> consolidate_field(metadata_list, "year"),
      bpm  |-> consolidate_field(metadata_list, "bpm"),
      key  |-> consolidate_field(metadata_list, "key") ]

\* ------------------------------------------------- metadata providers
\* What requests.get brings back: ok is FALSE for a network error, a non-2xx
\* status or a payload that is no JSON (each raises inside the provider's try),
\* else body is what the provider reads from the payload.
Response(ok, body) == [ok |-> ok, body |-> body]
Down == Response(FALSE, <<>>)

HttpCall(provider, query) == [provider |-> provider, query |-> query]
Asked(s, provider, query) == [s EXCEPT !.http = Append(@, HttpCall(provider, query))]
CallsTo(http, provider) == SelectSeq(http, LAMBDA c : c.provider = provider)

\* str(n) of a natural number, in characters
Digit(n) == <<"0","1","2","3","4","5","6","7","8","9">>[n + 1]
RECURSIVE DigitsOf(_)
DigitsOf(n) == IF n < 10 THEN <<Digit(n)>> ELSE Append(DigitsOf(n \div 10), Digit(n % 10))

\* date.split("-")[0]
RECURSIVE BeforeDash(_)
BeforeDash(date) ==
    IF date = <<>> \/ Head(date) = "-" THEN <<>> ELSE <<Head(date)>> \o BeforeDash(Tail(date))

\* The body of a song.link answer is the entity the platform loop or the
\* generic fallback picks, as a one-element list, or the empty list.
\* Returns [s, data]; the n-th call is answered by env.songlink[n].
get_songlink_metadata(s, url) ==
    LET resp == s.env.songlink[Len(CallsTo(s.http, "songlink")) + 1]
        s1   == Asked(s, "songlink", url)
    IN  IF resp.ok /\ resp.body # <<>>
        THEN LET entity == resp.body[1]
             IN  [s |-> s1,
                  data |-> [ artist |-> Get(entity, "artistName"),
                             title  |-> Get(entity, "title"),
                             album  |-> Get(entity, "albumName"),
                             year   |-> IF "year" \in DOMAIN entity
                                        THEN DigitsOf(entity["year"]) ELSE <<>> ]]
        ELSE [s |-> s1, data |-> EmptyDict]

\* The body of a MusicBrainz answer is data["recordings"], each recording the
\* list of its releases' dates.
get_musicbrainz_metadata(s, artist, title) ==
    LET resp == s.env.musicbrainz
        s1   == Asked(s, "musicbrainz", <<artist, title>>)
    IN  IF resp.ok /\ resp.body # <<>>
        THEN LET recording == resp.body[1]
                 release_date == IF recording # <<>> THEN recording[1] ELSE <<>>
             IN  [s |-> s1,
                  data |-> [year |-> IF release_date # <<>>
                                     THEN BeforeDash(release_date) ELSE <<>>]]
        ELSE [s |-> s1, data |-> EmptyDict]

\* The body of a Discogs answer is data["results"], each result a dict.
get_discogs_metadata(s, artist, title) ==
    LET resp == s.env.discogs
        s1   == Asked(s, "discogs", <<artist, title>>)
    IN  IF resp.ok /\ resp.body # <<>>
        THEN LET result == resp.body[1]
             IN  [s |-> s1,
                  data |-> [year |-> IF "year" \in DOMAIN result
                                     THEN DigitsOf(result["year"]) ELSE <<>>]]
        ELSE [s |-> s1, data |-> EmptyDict]

OrElse(a, b) == IF a # <<>> THEN a ELSE b
Truthy(d) == DOMAIN d # {}

\* get_enhanced_metadata asking Discogs only when MusicBrainz answered
get_enhanced_metadata_stop_at_failure(s, artist, title, url) ==
    LET sl == get_songlink_metadata(s, url)
        songlink_data == sl.data
        known == artist # <<>> /\ title # <<>>
        mb == IF known THEN get_musicbrainz_metadata(sl.s, artist, title)
              ELSE [s |-> sl.s, data |-> EmptyDict]
        dg == IF known /\ Truthy(mb.data) THEN get_discogs_metadata(mb.s, artist, title)
              ELSE [s |-> mb.s, data |-> EmptyDict]
        metadata_sources ==
            (IF Truthy(mb.data) THEN <<mb.data>> ELSE <<>>)
            \o (IF Truthy(dg.data) THEN <<dg.data>> ELSE <<>>)
        consolidated == consolidate_metadata(metadata_sources)
    IN  [s |-> dg.s,
         data |-> [ artist |-> OrElse(artist, Get(songlink_data, "artist")),
                    title  |-> OrElse(title, Get(songlink_data, "title")),
                    album  |-> Get(songlink_data, "album"),
                    year   |-> OrElse(consolidated.year, Get(songlink_data, "year")),
                    key    |-> consolidated.key,
                    bpm    |-> consolidated.bpm ]]

\* returns [s, data]
get_enhanced_metadata(s, artist, title, url) ==
    LET sl == get_songlink_metadata(s, url)
        songlink_data == sl.data
        known == artist # <<>> /\ title # <<>>
        mb == IF known THEN get_musicbrainz_metadata(sl.s, artist, title)
              ELSE [s |-> sl.s, data |-> EmptyDict]
        dg == IF known THEN get_discogs_metadata(mb.s, artist, title)
              ELSE [s |-> mb.s, data |-> EmptyDict]
        metadata_sources ==
            (IF Truthy(mb.data) THEN <<mb.data>> ELSE <<>>)
            \o (IF Truthy(dg.data) THEN <<dg.data>> ELSE <<>>)
        consolidated == consolidate_metadata(metadata_sources)
    IN  [s |-> dg.s,
         data |-> [ artist |-> OrElse(artist, Get(songlink_data, "artist")),
                    title  |-> OrElse(title, Get(songlink_data, "title")),
                    album  |-> Get(songlink_data, "album"),
                    year   |-> OrElse(consolidated.year, Get(songlink_data, "year")),
                    key    |-> consolidated.key,
                    bpm    |-> consolidated.bpm ]]

\* the handlers' "Obtener metadata" lines: returns [s, data]
resolve_metadata(s, first_url) ==
    LET basic == get_songlink_metadata(s, first_url)
    IN  get_enhanced_metadata(basic.s, Get(basic.data, "artist"),
                              Get(basic.data, "title"), first_url)

\* ------------------------------------------------------------- fan-out
\* sheet_name_of without the .lower() of the rest
sheet_name_of_no_lower(tag_name) ==
    <<CharUpper(tag_name[1])>> \o Tail(tag_name)

\* tag_name[0].upper() + tag_name[1:].lower()
sheet_name_of(tag_name) ==
    <<CharUpper(tag_name[1])>> \o StrLower(Tail(tag_name))

\* row = [ts, shared_by, source_chat, message_link, platform, artist, title,
\*        url, tags, notes, album, year, key, bpm]
make_row(url, tags, metadata) ==
    << Opaque("ts"), <<>>, <<>>, <<>>, Opaque(detect_platform(url)),
       metadata.artist, metadata.title, url, tags, <<>>,
       metadata.album, metadata.year, metadata.key, metadata.bpm >>

write_if_absent(s, url, sheet_name, row) ==
    LET r == row_exists_by_url_in_sheet(s, url, sheet_name)
    IN  IF ~r.found THEN append_row_to_sheet(r.s, sheet_name, row) ELSE r.s

RECURSIVE tag_loop(_, _, _, _)
tag_loop(s, tags_list, url, row) ==
    IF tags_list = <<>> THEN s
    ELSE LET tag      == Head(tags_list)
             tag_name == LStrip(tag, "#")
             s1 == IF tag # <<>> /\ tag # CONTROL_TAG /\ tag_name # <<>>
                   THEN write_if_absent(s, url, sheet_name_of(tag_name), row)
                   ELSE s
         IN  tag_loop(s1, Tail(tags_list), url, row)

\* append_row handling Undefined before the tags
append_row_undefined_first(s, url, tags, metadata) ==
    LET row       == make_row(url, tags, metadata)
        s1        == write_if_absent(s, url, MASTER_SHEET, row)
        s2        == write_if_absent(s1, url, UNDEFINED_SHEET, row)
        tags_list == Split(tags)
    IN  IF tags_list = <<>> THEN s2 ELSE tag_loop(s2, tags_list, url, row)

append_row(s, url, tags, metadata) ==
    LET row       == make_row(url, tags, metadata)
        s1        == write_if_absent(s, url, MASTER_SHEET, row)
        tags_list == Split(tags)
    IN  IF tags_list = <<>>
        THEN write_if_absent(s1, url, UNDEFINED_SHEET, row)
        ELSE write_if_absent(tag_loop(s1, tags_list, url, row), url, UNDEFINED_SHEET, row)

\* ------------------------------------------------------------- handlers
\* Both return [s, outcome, url]: the session afterwards, the reply, and
\* the primary URL (empty when the message had none). An exception that
\* leaves the handler is the outcome "Error": no reply is sent.
Reply(s, outcome, url) == [s |-> s, outcome |-> outcome, url |-> url]

\* the handlers from "Obtener metadata" to reply_text("Anotado en Master")
record_link(s, first_url, tags_str) ==
    LET enhanced_metadata == resolve_metadata(s, first_url)
        done == append_row(enhanced_metadata.s, first_url, tags_str, enhanced_metadata.data)
    IN  Reply(done, IF done.failed THEN "Error" ELSE "Recorded", first_url)

\* add_cmd without the return of the duplicate branch
add_cmd_no_return(s, text) ==
    IF Len(text) < 2 THEN Reply(s, "UsageError", <<>>)
    ELSE LET all_urls == URL_RE_finditer(Tail(text))
         IN  IF all_urls = <<>> THEN Reply(s, "UsageError", <<>>)
             ELSE LET first_url == all_urls[1]
                  IN  IF detect_platform(first_url) = NoPlatform
                      THEN Reply(s, "UnrecognizedPlatform", first_url)
                      ELSE LET r == row_exists_by_url_in_sheet(s, first_url, MASTER_SHEET)
                               done == record_link(r.s, first_url, tags_str_of(text))
                           IN  IF r.found THEN Reply(done.s, "DuplicateUrl", first_url)
                               ELSE done

add_cmd(s, text) ==
    IF Len(text) < 2 THEN Reply(s, "UsageError", <<>>)
    ELSE LET all_urls == URL_RE_finditer(Tail(text))
         IN  IF all_urls = <<>> THEN Reply(s, "UsageError", <<>>)
             ELSE LET first_url == all_urls[1]
                  IN  IF detect_platform(first_url) = NoPlatform
                      THEN Reply(s, "UnrecognizedPlatform", first_url)
                      ELSE LET r == row_exists_by_url_in_sheet(s, first_url, MASTER_SHEET)
                           IN  IF r.found THEN Reply(r.s, "DuplicateUrl", first_url)
                               ELSE record_link(r.s, first_url, tags_str_of(text))

\* catch_links with the duplicate check moved before the platform check
catch_links_dedup_first(s, text) ==
    LET ascucha_links == ASC_LINK_RE_finditer(text)
    IN  IF ascucha_links = <<>> THEN Reply(s, "Ignored", <<>>)
        ELSE LET first_url == ascucha_links[1]
                 tags_str  == tags_str_of(text)
                 r         == row_exists_by_url_in_sheet(s, first_url, MASTER_SHEET)
             IN  IF r.found THEN Reply(r.s, "DuplicateUrl", first_url)
                 ELSE IF detect_platform(first_url) = NoPlatform
                 THEN Reply(r.s, "UnrecognizedPlatform", first_url)
                 ELSE record_link(r.s, first_url, tags_str)

\* catch_links taking every URL of the text, gated or not
catch_links_ungated(s, text) ==
    LET ascucha_links == URL_RE_finditer(text)
    IN  IF ascucha_links = <<>> THEN Reply(s, "Ignored", <<>>)
        ELSE LET first_url == ascucha_links[1]
                 tags_str  == tags_str_of(text)
             IN  IF detect_platform(first_url) = NoPlatform
                 THEN Reply(s, "UnrecognizedPlatform", first_url)
                 ELSE LET r == row_exists_by_url_in_sheet(s, first_url, MASTER_SHEET)
                      IN  IF r.found THEN Reply(r.s, "DuplicateUrl", first_url)
                          ELSE record_link(r.s, first_url, tags_str)

catch_links(s, text) ==
    LET ascucha_links == ASC_LINK_RE_finditer(text)
    IN  IF ascucha_links = <<>> THEN Reply(s, "Ignored", <<>>)
        ELSE LET first_url == ascucha_links[1]
                 tags_str  == tags_str_of(text)
             IN  IF detect_platform(first_url) = NoPlatform
                 THEN Reply(s, "UnrecognizedPlatform", first_url)
                 ELSE LET r == row_exists_by_url_in_sheet(s, first_url, MASTER_SHEET)
                      IN  IF r.found THEN Reply(r.s, "DuplicateUrl", first_url)
                          ELSE record_link(r.s, first_url, tags_str)

\* --------------------------------------------------------------- inputs
WordA       == <<"a">>
WordUpperA  == <<"A">>
WordB       == <<"b">>
WordMaster  == <<"m","a","s","t","e","r">>
WordUndef   == <<"u","n","d","e","f","i","n","e","d">>
WordAscucha == <<"A","s","c","u","c","h","a">>

\* the hashtags a message carries besides its URL: none, one, a repeated
\* one, two that differ in case, two different ones, one named like a fixed
\* worksheet, and the control tag in two spellings
TagLists ==
    { <<>>, <<WordA>>, <<WordB>>, <<WordA, WordA>>, <<WordA, WordUpperA>>,
      <<WordA, WordB>>, <<WordMaster>>, <<WordUndef>>, <<WordAscucha>>,
      <<CONTROL_WORD>> }
TagToks(words) == [i \in 1..Len(words) |-> TagTok(words[i])]

AddTexts ==
    { <<CmdTok>> \o pre \o TagToks(words) :
        pre \in {<<>>} \cup { <<UrlTok(u)>> : u \in {U1, U2, UX} },
        words \in TagLists }

PassiveTexts ==
    { pre \o TagToks(words) :
        pre \in {<<>>, <<UrlTok(U1)>>,
                 <<TagTok(CONTROL_WORD), TagTok(WordA), UrlTok(U1)>>}
                \cup { <<TagTok(c), UrlTok(u)>> :
                         c \in {CONTROL_WORD, WordAscucha}, u \in {U1, U2, UX} },
        words \in TagLists }

\* plain messages, for long runs: one URL and no hashtag besides the gate
SeqAddTexts ==
    {<<CmdTok>>} \cup { <<CmdTok, UrlTok(u)>> : u \in {U1, U2, U3, UX} }
SeqPassiveTexts ==
    {<<UrlTok(U1)>>} \cup { <<TagTok(CONTROL_WORD), UrlTok(u)>> : u \in {U1, U2, U3} }

\* ---------------------------------------------------------------- state
VARIABLES
    store,      \* worksheet title -> rows (the spreadsheet sh)
    cache,      \* CACHE_URLS_REGISTERED
    log,        \* the store calls of the last update handled
    outcome,    \* the reply to the last update
    lastText,   \* the text of the last update
    lastUrl,    \* its primary URL, <<>> when it had none
    recorded,   \* the URLs whose ingestion ended Recorded
    steps,      \* number of updates handled
    tagIn,      \* a hashtag word given to the worksheet naming on its own
    tagOut,     \* the worksheet name computed for tagIn, <<>> before that
    env,        \* what the outside world did during the last update
    http,       \* the provider calls of the last update, oldest first
    metaIn,     \* a list of provider answers given to the consolidation on its own
    metaOut,    \* what consolidate_metadata made of metaIn, <<>> before that
    procs       \* bot processes sharing the spreadsheet, each inside one ingestion

botVars  == <<store, cache, log, outcome, lastText, lastUrl, recorded, steps, env, http>>
normVars == <<tagIn, tagOut>>
metaVars == <<metaIn, metaOut>>
concVars == <<procs>>
vars == <<botVars, normVars, metaVars, concVars>>

\* every provider unreachable, every store call served
Env(songlink, musicbrainz, discogs, fault) ==
    [songlink |-> songlink, musicbrainz |-> musicbrainz, discogs |-> discogs, fault |-> fault]
Offline == Env(<<Down, Down>>, Down, Down, NoFault)

\* the bot after start-up, before its first update
BotInit ==
    /\ store = <<>>
    /\ cache = {}
    /\ log = <<>>
    /\ outcome = "None"
    /\ lastText = <<>>
    /\ lastUrl = <<>>
    /\ recorded = {}
    /\ steps = 0
    /\ env = Offline
    /\ http = <<>>
NormIdle == tagIn = <<>> /\ tagOut = <<>>
MetaIdle == metaIn = <<>> /\ metaOut = <<>>
ConcIdle == procs = <<>>

Init == BotInit /\ NormIdle /\ MetaIdle /\ ConcIdle

SessionIn(e) ==
    [store |-> store, cache |-> cache, log |-> <<>>, http |-> <<>>, env |-> e, failed |-> FALSE]
Session == SessionIn(Offline)

Handled(text, r) ==
    /\ store' = r.s.store
    /\ cache' = r.s.cache
    /\ log' = r.s.log
    /\ env' = r.s.env
    /\ http' = r.s.http
    /\ outcome' = r.outcome
    /\ lastText' = text
    /\ lastUrl' = r.url
    /\ recorded' = IF r.outcome = "Recorded" THEN recorded \cup {r.url} ELSE recorded
    /\ steps' = steps + 1
    /\ UNCHANGED <<normVars, metaVars, concVars>>

\* telegram_app dispatches one update at a time to the first matching handler
AddCommand ==
    \E text \in AddTexts :
        steps < MaxSteps /\ Handled(text, add_cmd(Session, text))

PassiveMessage ==
    \E text \in PassiveTexts :
        steps < MaxSteps /\ Handled(text, catch_links(Session, text))

Next == AddCommand \/ PassiveMessage

Spec == Init /\ [][Next]_vars

SeqAddCommand ==
    \E text \in SeqAddTexts :
        steps < MaxSeqSteps /\ Handled(text, add_cmd(Session, text))

SeqPassiveMessage ==
    \E text \in SeqPassiveTexts :
        steps < MaxSeqSteps /\ Handled(text, catch_links(Session, text))

NextSeq == SeqAddCommand \/ SeqPassiveMessage

SpecSeq == Init /\ [][NextSeq]_vars

\* The worksheet naming of append_row's tag loop, applied to one hashtag as
\* tags_str carries it ("##word").
NormChars == {"a", "A", "b", "1"}
WordChillOUT == <<"c","h","i","l","l","O","U","T">>
WordChillout == <<"C","h","i","l","l","o","u","t">>
NormWords ==
    UNION { [1..n -> NormChars] : n \in 1..MaxTagLen } \cup {WordChillOUT, WordChillout}

InitNorm ==
    /\ BotInit
    /\ MetaIdle
    /\ ConcIdle
    /\ tagIn \in NormWords
    /\ tagOut = <<>>

NameSheet ==
    /\ tagOut = <<>>
    /\ tagOut' = sheet_name_of(LStrip(<<"#", "#">> \o tagIn, "#"))
    /\ UNCHANGED <<botVars, metaVars, concVars, tagIn>>

NextNorm == NameSheet

SpecNorm == InitNorm /\ [][NextNorm]_vars

\* consolidate_metadata applied to a list of provider answers on its own
MaxProviders == 3
Y2001 == Opaque("2001")
Y2002 == Opaque("2002")
Y2003 == Opaque("2003")
BPM120 == Opaque("120")
BPM128 == Opaque("128")
KEYAM  == Opaque("Am")
\* what a provider may say of a field; NoKey is a dict without the key
NoKey == <<"absent">>
YearAnswers == {NoKey, <<>>, Y2001, Y2002, Y2003}
\* tempo and key as one provider gives them together
BpmKeyAnswers == {<<NoKey, NoKey>>, <<NoKey, KEYAM>>, <<BPM120, KEYAM>>, <<BPM128, NoKey>>}
DictOf(y, b, k) ==
    [ f \in ({"year"} \ (IF y = NoKey THEN {"year"} ELSE {}))
            \cup ({"bpm"} \ (IF b = NoKey THEN {"bpm"} ELSE {}))
            \cup ({"key"} \ (IF k = NoKey THEN {"key"} ELSE {}))
      |-> IF f = "year" THEN y ELSE IF f = "bpm" THEN b ELSE k ]
ProviderDicts ==
    { DictOf(y, bk[1], bk[2]) : y \in YearAnswers, bk \in BpmKeyAnswers }

InitMeta ==
    /\ BotInit
    /\ NormIdle
    /\ ConcIdle
    /\ metaIn \in UNION { [1..n -> ProviderDicts] : n \in 0..MaxProviders }
    /\ metaOut = <<>>

Consolidate ==
    /\ metaOut = <<>>
    /\ metaOut' = consolidate_metadata(metaIn)
    /\ UNCHANGED <<botVars, normVars, concVars, metaIn>>

NextMeta == Consolidate

SpecMeta == InitMeta /\ [][NextMeta]_vars

\* Updates answered by providers that resolve, fail or disagree.
MaxNetSteps == 1
ARTIST == Opaque("Artist")
TITLE  == Opaque("Title")
ALBUM  == Opaque("Album")
EntityFull    == [artistName |-> ARTIST, title |-> TITLE, albumName |-> ALBUM, year |-> 2001]
EntityNoYear  == [artistName |-> ARTIST, title |-> TITLE, albumName |-> ALBUM]
EntityNoTitle == [artistName |-> ARTIST]
Date2001 == <<"2","0","0","1","-","0","5">>
Date2002 == <<"2","0","0","2">>
FirstSonglinkAnswers ==
    { Down, Response(TRUE, <<>>), Response(TRUE, <<EntityFull>>),
      Response(TRUE, <<EntityNoTitle>>) }
SecondSonglinkAnswers ==
    { Down, Response(TRUE, <<EntityFull>>), Response(TRUE, <<EntityNoYear>>) }
MusicBrainzAnswers ==
    { Down, Response(TRUE, <<>>), Response(TRUE, << <<>> >>),
      Response(TRUE, << <<Date2001>> >>), Response(TRUE, << <<Date2002>> >>) }
DiscogsAnswers ==
    { Down, Response(TRUE, <<>>), Response(TRUE, <<[year |-> 2001]>>),
      Response(TRUE, <<[year |-> 2002]>>) }
Nets ==
    { Env(<<a, b>>, m, d, NoFault) :
        a \in FirstSonglinkAnswers, b \in SecondSonglinkAnswers,
        m \in MusicBrainzAnswers, d \in DiscogsAnswers }
NetAddTexts == { <<CmdTok, UrlTok(U1), TagTok(WordA)>> }
NetPassiveTexts == { <<TagTok(CONTROL_WORD), UrlTok(U2)>> }

NetAddCommand ==
    \E text \in NetAddTexts, e \in Nets :
        steps < MaxNetSteps /\ Handled(text, add_cmd(SessionIn(e), text))

NetPassiveMessage ==
    \E text \in NetPassiveTexts, e \in Nets :
        steps < MaxNetSteps /\ Handled(text, catch_links(SessionIn(e), text))

NextNet == NetAddCommand \/ NetPassiveMessage

SpecNet == Init /\ [][NextNet]_vars

\* Updates during which one store call may raise.
MaxFailSteps == 2
FailSheets == {MASTER_SHEET, sheet_name_of(WordA), sheet_name_of(WordB), UNDEFINED_SHEET}
Faults ==
    {NoFault}
    \cup { Fault(op, sheet, 1) : op \in {"add_worksheet", "clear", "update"}, sheet \in FailSheets }
    \cup { Fault("append_row", sheet, n) : sheet \in FailSheets, n \in 1..2 }
FailAddTexts ==
    { <<CmdTok, UrlTok(U1), TagTok(WordA), TagTok(WordB)>>,
      <<CmdTok, UrlTok(U1), TagTok(WordA)>>,
      <<CmdTok, UrlTok(U2), TagTok(WordA)>> }
FailPassiveTexts == { <<TagTok(CONTROL_WORD), UrlTok(U1), TagTok(WordA)>> }

FailAddCommand ==
    \E text \in FailAddTexts, f \in Faults :
        /\ steps < MaxFailSteps
        /\ Handled(text, add_cmd(SessionIn([Offline EXCEPT !.fault = f]), text))

FailPassiveMessage ==
    \E text \in FailPassiveTexts, f \in Faults :
        /\ steps < MaxFailSteps
        /\ Handled(text, catch_links(SessionIn([Offline EXCEPT !.fault = f]), text))

NextFail == FailAddCommand \/ FailPassiveMessage

SpecFail == Init /\ [][NextFail]_vars

\* Bot processes on one spreadsheet (a webhook instance next to a second
\* instance or a polling run). Inside a process a handler runs from its first
\* store call to its reply without suspending, the gspread and requests calls
\* being synchronous; between processes every store call is one step. A
\* process is [pc, url, row, todo, cache, absent, wanted, appended, outcome]:
\* pc names the store call it makes next, todo lists the worksheets append_row
\* has still to handle, cache is its own CACHE_URLS_REGISTERED.
Destinations(tags) ==
    LET tags_list == Split(tags)
        Named(tag) == tag # <<>> /\ tag # CONTROL_TAG /\ LStrip(tag, "#") # <<>>
        named     == SelectSeq(tags_list, Named)
    IN  <<MASTER_SHEET>>
        \o [i \in 1..Len(named) |-> sheet_name_of(LStrip(named[i], "#"))]
        \o <<UNDEFINED_SHEET>>

SessionOf(st, pr) ==
    [store |-> st, cache |-> pr.cache, log |-> <<>>, http |-> <<>>, env |-> Offline, failed |-> FALSE]

\* a process that has just received the command text
Proc(text) ==
    LET first_url == URL_RE_finditer(Tail(text))[1]
        tags_str  == tags_str_of(text)
    IN  [ pc |-> "h_ws", url |-> first_url,
          row |-> make_row(first_url, tags_str,
                           resolve_metadata(SessionOf(<<>>, [cache |-> {}]), first_url).data),
          todo |-> Destinations(tags_str), cache |-> {}, absent |-> {},
          wanted |-> <<>>, appended |-> {}, outcome |-> "None" ]

Finished(pr, reply) == [pr EXCEPT !.pc = "done", !.outcome = reply]
\* append_row goes on to its next worksheet, or add_cmd replies
Advance(pr) ==
    IF Len(pr.todo) = 1 THEN Finished([pr EXCEPT !.todo = <<>>], "Recorded")
    ELSE [pr EXCEPT !.todo = Tail(@), !.pc = "x_ws"]
At(st, pr, pc) == [store |-> st, pr |-> [pr EXCEPT !.pc = pc]]

\* the record appended a second time by the same call
proc_append_twice(st, pr) ==
    LET sheet == Head(pr.todo)
        s == SessionOf(st, pr)
    IN  [store |-> ws_append_row(ws_append_row(s, sheet, pr.row), sheet, pr.row).store,
         pr    |-> Advance([pr EXCEPT !.appended = @ \cup {sheet}])]

\* append_row_to_sheet: ws.append_row(row)
proc_append(st, pr) ==
    LET sheet == Head(pr.todo)
        s == SessionOf(st, pr)
    IN  [store |-> ws_append_row(s, sheet, pr.row).store,
         pr    |-> Advance([pr EXCEPT !.appended = @ \cup {sheet}])]

\* the next store call of process pr on store st: returns [store, pr]
proc_step(st, pr) ==
    LET sheet == IF pr.todo = <<>> THEN <<>> ELSE Head(pr.todo)
        s     == SessionOf(st, pr)
    IN  CASE pr.pc = "h_ws" ->
               \* add_cmd: row_exists_by_url_in_sheet(first_url, MASTER_SHEET)
               IF pr.url \in pr.cache THEN [store |-> st, pr |-> Finished(pr, "DuplicateUrl")]
               ELSE IF MASTER_SHEET \notin DOMAIN st THEN At(st, pr, "x_ws")
               ELSE At(st, pr, "h_col")
          [] pr.pc = "h_col" ->
               LET r == row_exists_by_url_in_sheet(s, pr.url, MASTER_SHEET)
                   pr1 == [pr EXCEPT !.cache = r.s.cache]
               IN  IF r.found THEN [store |-> st, pr |-> Finished(pr1, "DuplicateUrl")]
                   ELSE At(st, pr1, "x_ws")
          [] pr.pc = "x_ws" ->
               \* append_row: row_exists_by_url_in_sheet(url, sheet)
               IF sheet = MASTER_SHEET /\ pr.url \in pr.cache
               THEN [store |-> st, pr |-> Advance(pr)]
               ELSE IF sheet \notin DOMAIN st
               THEN At(st, [pr EXCEPT !.absent = @ \cup {sheet}], "eh_ws")
               ELSE At(st, pr, "x_col")
          [] pr.pc = "x_col" ->
               LET r == row_exists_by_url_in_sheet(s, pr.url, sheet)
                   pr1 == [pr EXCEPT !.cache = r.s.cache]
               IN  IF r.found THEN [store |-> st, pr |-> Advance(pr1)]
                   ELSE At(st, [pr1 EXCEPT !.absent = @ \cup {sheet}], "eh_ws")
          [] pr.pc = "eh_ws" ->
               \* ensure_headers_in_sheet: sh.worksheet(sheet_name)
               IF sheet \notin DOMAIN st THEN At(st, pr, "eh_add") ELSE At(st, pr, "eh_row1")
          [] pr.pc = "eh_add" ->
               LET s1 == add_worksheet(s, sheet)
               IN  IF s1.failed THEN [store |-> st, pr |-> Finished(pr, "Error")]
                   ELSE At(s1.store, pr, "eh_hdr")
          [] pr.pc = "eh_hdr" ->
               At(ws_append_row(s, sheet, HEADERS_MASTER).store, pr, "a_ws")
          [] pr.pc = "eh_row1" ->
               LET first_row == row_values(st[sheet], 1)
               IN  IF [i \in 1..Len(first_row) |-> Strip(first_row[i])] # HEADERS_MASTER
                   THEN At(st, pr, "eh_clear") ELSE At(st, pr, "a_ws")
          [] pr.pc = "eh_clear" ->
               At(ws_clear(s, sheet).store, pr, "eh_hdr")
          [] pr.pc = "a_ws" ->
               \* append_row_to_sheet: ws = sh.worksheet(sheet_name)
               At(st, pr, "ec_row1")
          [] pr.pc = "ec_row1" ->
               \* ensure_columns: headers = ws.row_values(1)
               LET headers == row_values(st[sheet], 1)
                   wanted  == AddMissing(headers, REQUIRED_COLS)
               IN  IF wanted # headers THEN At(st, [pr EXCEPT !.wanted = wanted], "ec_update")
                   ELSE At(st, pr, "a_append")
          [] pr.pc = "ec_update" ->
               At(ws_update_row1(s, sheet, pr.wanted).store, [pr EXCEPT !.wanted = <<>>], "a_append")
          [] pr.pc = "a_append" -> proc_append(st, pr)

ProcIds == {"p1", "p2"}
ConcTexts ==
    { <<CmdTok, UrlTok(U1)>>, <<CmdTok, UrlTok(U1), TagTok(WordA)>>, <<CmdTok, UrlTok(U2)>> }
\* the spreadsheet when the processes start: new, or after one /add of U3
ConcStores ==
    { <<>>, add_cmd([store |-> <<>>, cache |-> {}, log |-> <<>>, http |-> <<>>,
                     env |-> Offline, failed |-> FALSE],
                    <<CmdTok, UrlTok(U3)>>).s.store }

InitConc ==
    /\ cache = {}
    /\ log = <<>>
    /\ outcome = "None"
    /\ lastText = <<>>
    /\ lastUrl = <<>>
    /\ recorded = {}
    /\ steps = 0
    /\ env = Offline
    /\ http = <<>>
    /\ NormIdle
    /\ MetaIdle
    /\ procs \in [ProcIds -> { Proc(text) : text \in ConcTexts }]
    /\ store \in ConcStores

\* process p makes its next store call
ProcStep(p) ==
    /\ procs[p].pc # "done"
    /\ LET r == proc_step(store, procs[p])
       IN  /\ store' = r.store
           /\ procs' = [procs EXCEPT ![p] = r.pr]
    /\ UNCHANGED <<cache, log, outcome, lastText, lastUrl, recorded, steps, env, http,
                   normVars, metaVars>>

NextConc == \E p \in ProcIds : ProcStep(p)

SpecConc == InitConc /\ [][NextConc]_vars

\* ------------------------------------------------- vocabulary of the claims
TAGS_COL == 9

\* the worksheet holds url in its key column
Holds(st, name, url) ==
    /\ name \in DOMAIN st
    /\ \E i \in 1..Len(st[name]) :
          Len(st[name][i]) >= URL_COL /\ st[name][i][URL_COL] = url

Occurrences(st, name, url) ==
    Cardinality({ i \in 1..Len(st[name]) :
                    Len(st[name][i]) >= URL_COL /\ st[name][i][URL_COL] = url })

KeyCells(ws) ==
    { ws[i][URL_COL] : i \in { j \in 1..Len(ws) : Len(ws[j]) >= URL_COL } }

IsWrite(c) == c.op \in {"add_worksheet", "append_row", "clear", "update"}
Writes(l)  == SelectSeq(l, IsWrite)

IsDataAppend(c) == c.op = "append_row" /\ c.row # HEADERS_MASTER
\* the worksheets a list of store calls appended a record to
AppendedTo(l) == { l[i].sheet : i \in { j \in 1..Len(l) : IsDataAppend(l[j]) } }

\* the hashtags of a message other than the control tag, without the "#"
UserTagWords(text) ==
    { Tail(text[i].v) :
        i \in { j \in 1..Len(text) :
                  text[j].kind = "tag" /\ StrLower(Tail(text[j].v)) # CONTROL_WORD } }

\* the destination name the specification gives a hashtag word
DestinationOf(w) == <<CharUpper(w[1])>> \o StrLower(Tail(w))

IsCommand(text) == text # <<>> /\ text[1].kind = "cmd"
HasUrl(text)    == \E i \in 1..Len(text) : text[i].kind = "url"
Recognized(url) == \E p \in DOMAIN PLATFORM_HOSTS : Netloc(url) \in PLATFORM_HOSTS[p]

LowerLetters == { LowerChars[i] : i \in 1..Len(LowerChars) }
UpperLetters == { UpperChars[i] : i \in 1..Len(UpperChars) }

\* ------------------------------------------------------------------ claims

\* C1: every URL whose ingestion ended Recorded is in the key column of
\* Master; a later ingestion of another URL never removes it.
C1_RecordedStaysInMaster ==
    \A url \in recorded : Holds(store, MASTER_SHEET, url)

\* C2: every worksheet holds each URL at most once in its key column.
C2_UrlAtMostOncePerSheet ==
    \A name \in DOMAIN store :
        \A url \in KeyCells(store[name]) : Occurrences(store, name, url) <= 1

\* a message with two hashtags that differ only in case was recorded, and
\* their common worksheet holds the URL once
C2_Witness ==
    /\ outcome = "Recorded"
    /\ {WordA, WordUpperA} \subseteq UserTagWords(lastText)
    /\ Occurrences(store, DestinationOf(WordA), lastUrl) = 1

\* C3: when a message with user hashtags, none of whose worksheets holds the
\* URL yet, ends Recorded, the URL is in Master and in the worksheet of every
\* hashtag, and no row is written to Undefined.
C3_TaggedFanOutSkipsUndefined ==
    [][ ( /\ outcome' = "Recorded"
          /\ UserTagWords(lastText') # {}
          /\ \A w \in UserTagWords(lastText') :
                /\ DestinationOf(w) # UNDEFINED_SHEET
                /\ ~Holds(store, DestinationOf(w), lastUrl') )
        => ( /\ Holds(store', MASTER_SHEET, lastUrl')
             /\ \A w \in UserTagWords(lastText') :
                   Holds(store', DestinationOf(w), lastUrl')
             /\ UNDEFINED_SHEET \notin AppendedTo(log') ) ]_vars

\* C4: the ingestion of a message without user hashtags whose recognized URL
\* is not in Master writes the record to Master and Undefined and nowhere else.
C4_UntaggedWritesMasterAndUndefined ==
    [][ ( /\ lastUrl' # <<>>
          /\ Recognized(lastUrl')
          /\ UserTagWords(lastText') = {}
          /\ ~Holds(store, MASTER_SHEET, lastUrl') )
        => AppendedTo(log') = {MASTER_SHEET, UNDEFINED_SHEET} ]_vars

\* C5: in both modes, when the duplicate check finds the primary URL in
\* Master the reply is DuplicateUrl and the store is not written: no row, no
\* worksheet, no header.
C5_DuplicateWritesNothing ==
    [][ /\ ( ( /\ lastUrl' # <<>>
               /\ Recognized(lastUrl')
               /\ (lastUrl' \in cache \/ Holds(store, MASTER_SHEET, lastUrl')) )
             => outcome' = "DuplicateUrl" )
        /\ ( outcome' = "DuplicateUrl"
             => store' = store /\ Writes(log') = <<>> ) ]_vars

\* a passive message with a hashtag whose worksheet does not exist ended
\* DuplicateUrl on a URL that Master holds
C5_Witness ==
    /\ outcome = "DuplicateUrl"
    /\ ~IsCommand(lastText)
    /\ Holds(store, MASTER_SHEET, lastUrl)
    /\ \E w \in UserTagWords(lastText) : DestinationOf(w) \notin DOMAIN store

\* C6: a recognized URL new to the Master index ends Recorded, and ingesting
\* it again right after ends DuplicateUrl and leaves every worksheet as it was.
C6_RecordedThenDuplicate ==
    [][ /\ ( ( /\ lastUrl' # <<>>
               /\ Recognized(lastUrl')
               /\ lastUrl' \notin cache
               /\ ~Holds(store, MASTER_SHEET, lastUrl') )
             => outcome' = "Recorded" )
        /\ ( (outcome = "Recorded" /\ lastUrl' = lastUrl)
             => (outcome' = "DuplicateUrl" /\ store' = store) ) ]_vars

\* the second of two updates ended DuplicateUrl on the URL the first recorded
C6_Witness ==
    /\ steps = 2
    /\ outcome = "DuplicateUrl"
    /\ recorded = {lastUrl}
    /\ Holds(store, MASTER_SHEET, lastUrl)

\* C7: a primary URL of no known platform ends UnrecognizedPlatform, a command
\* without URL ends UsageError, and both leave the store and the cache alone.
C7_ValidationFailuresMutateNothing ==
    [][ /\ ( (lastUrl' # <<>> /\ ~Recognized(lastUrl'))
             => outcome' = "UnrecognizedPlatform" )
        /\ ( (IsCommand(lastText') /\ ~HasUrl(lastText'))
             => outcome' = "UsageError" )
        /\ ( outcome' \in {"UnrecognizedPlatform", "UsageError"}
             => store' = store /\ cache' = cache /\ Writes(log') = <<>> ) ]_vars

\* a passive message was rejected for its platform while Master held rows the
\* cache had not read
C7_Witness ==
    /\ outcome = "UnrecognizedPlatform"
    /\ ~IsCommand(lastText)
    /\ MASTER_SHEET \in DOMAIN store
    /\ cache = {}

\* C8: an append to a worksheet that holds data rows leaves each of them in
\* place and unchanged; it never clears, overwrites or reorders them.
C8_AppendKeepsExistingRows ==
    [][ \A name \in DOMAIN store :
          \A i \in 2..Len(store[name]) :
             /\ name \in DOMAIN store'
             /\ i <= Len(store'[name])
             /\ store'[name][i] = store[name][i] ]_vars

\* C9: no record is written to a worksheet named after the control tag, in
\* whatever case it was typed, and no record lists the control tag in its tags.
C9_ControlTagNamesNoSheet ==
    \A i \in 1..Len(log) :
        IsDataAppend(log[i])
        => /\ StrLower(log[i].sheet) # CONTROL_WORD
           /\ \A k \in 1..Len(Split(log[i].row[TAGS_COL])) :
                 StrLower(LStrip(Split(log[i].row[TAGS_COL])[k], "#")) # CONTROL_WORD

\* C10: the worksheet name of a hashtag is its first character in upper case
\* followed by the rest in lower case (chillOUT gives Chillout, a gives A);
\* hashtags that differ only in case get the same name, and the name of a
\* name is that name.
C10_SheetNameNormalized ==
    tagOut # <<>>
    => /\ Len(tagOut) = Len(tagIn)
       /\ tagOut[1] \notin LowerLetters
       /\ \A i \in 2..Len(tagOut) : tagOut[i] \notin UpperLetters
       /\ StrLower(tagOut) = StrLower(tagIn)
       /\ (tagIn = WordChillOUT => tagOut = WordChillout)
       /\ (tagIn = WordA => tagOut = WordUpperA)
       /\ \A w \in NormWords :
             StrLower(w) = StrLower(tagIn) => sheet_name_of(w) = tagOut
       /\ sheet_name_of(tagOut) = tagOut

\* the name of chillOUT was computed
C10_Witness ==
    tagIn = WordChillOUT /\ tagOut = WordChillout

\* the distinct non-empty answers to field k, and how often v was answered
Answers(metadata_list, k) ==
    { Get(metadata_list[i], k) : i \in 1..Len(metadata_list) } \ {<<>>}
Votes(metadata_list, k, v) ==
    Cardinality({ i \in 1..Len(metadata_list) : Get(metadata_list[i], k) = v })
FirstSeen(metadata_list, k, v) ==
    CHOOSE i \in 1..Len(metadata_list) :
        /\ Get(metadata_list[i], k) = v
        /\ \A j \in 1..(i - 1) : Get(metadata_list[j], k) # v
\* v comes before w: more votes, or as many and seen first
Outranks(metadata_list, k, v, w) ==
    \/ Votes(metadata_list, k, v) > Votes(metadata_list, k, w)
    \/ /\ Votes(metadata_list, k, v) = Votes(metadata_list, k, w)
       /\ FirstSeen(metadata_list, k, v) < FirstSeen(metadata_list, k, w)
\* the answer with exactly n answers before it
Ranked(metadata_list, k, n) ==
    CHOOSE v \in Answers(metadata_list, k) :
        Cardinality({ w \in Answers(metadata_list, k) :
                        Outranks(metadata_list, k, w, v) }) = n
Consensus(metadata_list, k) ==
    LET answers == Answers(metadata_list, k)
    IN  IF answers = {} THEN <<>>
        ELSE IF Cardinality(answers) = 1 THEN CHOOSE v \in answers : TRUE
        ELSE LET v1 == Ranked(metadata_list, k, 0)
                 v2 == Ranked(metadata_list, k, 1)
             IN  IF Votes(metadata_list, k, v1) = Votes(metadata_list, k, v2)
                 THEN v1 \o <<" ó ">> \o v2
                 ELSE v1

\* C11: for year, key and bpm alike the consolidated value is empty when no
\* provider gave one, the value when only one was given, the two most frequent
\* joined "v1 ó v2" (most frequent first, then first seen) when their counts
\* tie, and else the most frequent; 2001, 2001, 2002 gives 2001 and 2001, 2002
\* gives "2001 ó 2002".
C11_ConsensusConsolidation ==
    metaOut # <<>>
    => /\ \A k \in {"year", "key", "bpm"} : metaOut[k] = Consensus(metaIn, k)
       /\ ( [i \in 1..Len(metaIn) |-> Get(metaIn[i], "year")] = <<Y2001, Y2001, Y2002>>
            => metaOut.year = Y2001 )
       /\ ( [i \in 1..Len(metaIn) |-> Get(metaIn[i], "year")] = <<Y2001, Y2002>>
            => metaOut.year = <<"2001", " ó ", "2002">> )

\* three providers with years 2002, 2001, 2001, bpm 120, 128, none, one key Am
C11_Witness ==
    /\ Len(metaIn) = 3
    /\ [i \in 1..3 |-> Get(metaIn[i], "year")] = <<Y2002, Y2001, Y2001>>
    /\ [i \in 1..3 |-> Get(metaIn[i], "bpm")] = <<BPM120, BPM128, <<>> >>
    /\ metaOut = [year |-> Y2001, bpm |-> <<"120", " ó ", "128">>, key |-> KEYAM]

YEAR_COL == 12
KEY_COL  == 13
BPM_COL  == 14
\* the records a list of store calls appended
RowsWritten(l) == { l[i].row : i \in { j \in 1..Len(l) : IsDataAppend(l[j]) } }
\* every corroborating provider call fails
CorroborationFails(e) == ~e.musicbrainz.ok /\ ~e.discogs.ok
\* the n-th aggregator answer resolves the URL to an entity
Resolves(e, n) == e.songlink[n].ok /\ e.songlink[n].body # <<>>
\* the aggregator's raw year as the record assembly sees it
AggregatorYear(e) ==
    IF Resolves(e, 2) /\ "year" \in DOMAIN e.songlink[2].body[1]
    THEN DigitsOf(e.songlink[2].body[1]["year"]) ELSE <<>>
\* the aggregator's first answer gives artist and title
ArtistTitleKnown(e) ==
    /\ Resolves(e, 1)
    /\ {"artistName", "title"} \subseteq DOMAIN e.songlink[1].body[1]
\* the update went past the duplicate check
Ingests == outcome' \notin {"UsageError", "UnrecognizedPlatform", "DuplicateUrl", "Ignored"}

\* C12 as written: with every corroborating provider asked and failing an
\* ingestion ends Recorded and the written record has empty year, key and bpm.
C12_AllFailingLeavesYearEmpty ==
    [][ (Ingests /\ CorroborationFails(env') /\ ArtistTitleKnown(env'))
        => /\ outcome' = "Recorded"
           /\ \A row \in RowsWritten(log') :
                 row[YEAR_COL] = <<>> /\ row[KEY_COL] = <<>> /\ row[BPM_COL] = <<>> ]_vars

\* C12: provider failures never abort an ingestion. An ingestion that is past
\* the duplicate check ends Recorded whatever the providers answer; when every
\* corroborating provider fails the written record has empty key and bpm and
\* the aggregator's raw year (empty when the aggregator gives none); the
\* aggregator is asked twice, and when its first answer gives artist and title
\* each corroborating provider is asked once, whichever of them fail.
C12_ProviderFailuresNeverAbort ==
    [][ Ingests
        => /\ outcome' = "Recorded"
           /\ RowsWritten(log') # {}
           /\ CorroborationFails(env')
              => \A row \in RowsWritten(log') :
                    /\ row[YEAR_COL] = AggregatorYear(env')
                    /\ row[KEY_COL] = <<>>
                    /\ row[BPM_COL] = <<>>
           /\ Len(CallsTo(http', "songlink")) = 2
           /\ \A p \in {"musicbrainz", "discogs"} :
                 Len(CallsTo(http', p)) = IF ArtistTitleKnown(env') THEN 1 ELSE 0 ]_vars

\* MusicBrainz and Discogs both unreachable, both asked, the record written
\* with the aggregator's year 2001
C12_Witness ==
    /\ outcome = "Recorded"
    /\ CorroborationFails(env)
    /\ Len(CallsTo(http, "musicbrainz")) = 1 /\ Len(CallsTo(http, "discogs")) = 1
    /\ \E row \in RowsWritten(log) :
          /\ row[YEAR_COL] = <<"2","0","0","1">>
          /\ row[KEY_COL] = <<>> /\ row[BPM_COL] = <<>>

\* some URL of the text directly follows the control tag, in any letter case
Gated(text) ==
    \E i \in 1..(Len(text) - 1) :
        /\ text[i].kind = "tag"
        /\ StrLower(Tail(text[i].v)) = CONTROL_WORD
        /\ text[i + 1].kind = "url"

\* C13: a passive-mode message with no URL directly after the control tag is
\* silently ignored, whatever other URLs or hashtags it carries: no outcome is
\* reported, no store call and no provider call is made, and the store and the
\* cache stay as they were.
C13_UngatedMessageIgnored ==
    [][ (~IsCommand(lastText') /\ ~Gated(lastText'))
        => /\ outcome' = "Ignored"
           /\ log' = <<>>
           /\ http' = <<>>
           /\ store' = store
           /\ cache' = cache ]_vars

\* a message with a URL, the control tag and a hashtag, but the URL not right
\* after the control tag, ignored by a bot whose store already holds a record
C13_Witness ==
    /\ outcome = "Ignored"
    /\ HasUrl(lastText)
    /\ \E i \in 1..Len(lastText) : lastText[i].v = CONTROL_TAG
    /\ UserTagWords(lastText) # {}
    /\ recorded # {}

\* the destinations the hashtags of a message name
TagDestinations(text) == { DestinationOf(w) : w \in UserTagWords(text) }
\* the last update appended its record to Master and then raised on a write to
\* one of its tag destinations, and the same message now comes again
Resubmitted ==
    /\ outcome = "Error"
    /\ Holds(store, MASTER_SHEET, lastUrl)
    /\ env.fault.sheet \in TagDestinations(lastText)
    /\ lastText' = lastText

\* C14 as written: the resubmission adds no second Master row and appends the
\* record to every tag destination still missing the URL.
C14_ResubmissionHeals ==
    [][ (Resubmitted /\ env'.fault = NoFault)
        => /\ Occurrences(store', MASTER_SHEET, lastUrl) = 1
           /\ \A d \in TagDestinations(lastText) : Holds(store', d, lastUrl) ]_vars

\* C14: after an ingestion that appended the record to Master and then failed
\* on a tag destination's write, a resubmission of the same message is answered
\* as a duplicate and writes nothing: Master keeps its one row of the URL and
\* every tag destination that is missing the URL stays without it.
C14_ResubmissionIsDuplicate ==
    [][ Resubmitted
        => /\ outcome' = "DuplicateUrl"
           /\ Writes(log') = <<>>
           /\ store' = store
           /\ Occurrences(store', MASTER_SHEET, lastUrl) = 1 ]_vars

\* answered as a duplicate, the URL in Master though no ingestion of it ever
\* ended Recorded, and a tag destination of the message still without it
C14_Witness ==
    /\ outcome = "DuplicateUrl"
    /\ lastUrl \notin recorded
    /\ Holds(store, MASTER_SHEET, lastUrl)
    /\ \E d \in TagDestinations(lastText) : ~Holds(store, d, lastUrl)

\* the processes that ingest url, saw it absent from the worksheet and
\* appended it there
Appenders(name, url) ==
    { p \in DOMAIN procs :
        procs[p].url = url /\ name \in procs[p].absent /\ name \in procs[p].appended }

\* C15: the dedup check and the append are not atomic against the shared
\* store. With every store call one atomic step, Master never holds a URL
\* more often than there are ingestions of it that each saw it absent from
\* Master and then appended it; two concurrent ingestions of the same new URL
\* can both do so, which leaves the URL twice in Master's key column.
C15_RowsOnlyFromAbsentChecks ==
    \A p \in DOMAIN procs :
        MASTER_SHEET \in DOMAIN store
        => Occurrences(store, MASTER_SHEET, procs[p].url)
             <= Cardinality(Appenders(MASTER_SHEET, procs[p].url))

\* both ingestions of the same URL have ended Recorded and Master holds the
\* URL twice
C15_Witness ==
    /\ DOMAIN procs = ProcIds
    /\ \A p \in ProcIds : procs[p].outcome = "Recorded" /\ procs[p].url = Opaque(U1)
    /\ Occurrences(store, MASTER_SHEET, Opaque(U1)) = 2

\* worksheet names and URLs to ask the dedup check about
ProbeSheets == {MASTER_SHEET, UNDEFINED_SHEET, <<"A">>, <<"B">>, <<"Z">>}
ProbeUrls == {Opaque(U1), Opaque(U2), Opaque(U3), Opaque(UX), Opaque("URL")}

\* C16: asked about a worksheet the spreadsheet does not have, the dedup check
\* answers false for every URL, raises nothing, creates no worksheet and
\* leaves the store and the cache as they were.
C16_MissingDestinationHoldsNothing ==
    \A name \in ProbeSheets \ DOMAIN store : \A url \in ProbeUrls :
        LET r == row_exists_by_url_in_sheet(Session, url, name)
        IN  /\ ~r.found
            /\ ~r.s.failed
            /\ Writes(r.s.log) = <<>>
            /\ r.s.store = store
            /\ r.s.cache = cache

\* an ingestion has just looked up a tag destination that did not exist, with
\* the cache filled, and another destination is still missing
C16_Witness ==
    /\ cache # {}
    /\ \E i \in 1..Len(log) : log[i].op = "worksheet" /\ log[i].sheet = <<"A">>
    /\ <<"B">> \notin DOMAIN store

\* the values a full read of the key column brings back
KeyValues(st, name) == IF name \in DOMAIN st THEN KeyCells(st[name]) \ {<<>>} ELSE {}
ReadOf(name) == <<Call("col_values", name, <<>>)>>

\* C17: a check against Master for a URL in the cache answers true without a
\* store call; for a URL not in the cache it reads Master's key column in
\* full, replaces the cache by exactly the values read and answers whether
\* the URL is among them.
C17_MasterCacheProtocol ==
    \A url \in ProbeUrls :
        LET r == row_exists_by_url_in_sheet(Session, url, MASTER_SHEET)
        IN  /\ r.s.store = store
            /\ IF url \in cache
               THEN r.found /\ r.s.log = <<>> /\ r.s.cache = cache
               ELSE /\ r.s.cache = KeyValues(store, MASTER_SHEET)
                    /\ r.found = (url \in KeyValues(store, MASTER_SHEET))
                    /\ MASTER_SHEET \in DOMAIN store => r.s.log = ReadOf(MASTER_SHEET)

\* a handler's check served from the cache (no store call at all), the cache
\* having been rebuilt by an earlier miss from what Master holds
C17_Witness ==
    /\ outcome = "DuplicateUrl"
    /\ log = <<>>
    /\ lastUrl \in cache
    /\ cache = KeyValues(store, MASTER_SHEET)

\* C18: a check against a worksheet other than Master reads its key column
\* and answers from what it read; the cache is neither consulted nor changed.
C18_OtherDestinationsReadFresh ==
    \A name \in (ProbeSheets \cap DOMAIN store) \ {MASTER_SHEET} : \A url \in ProbeUrls :
        LET r == row_exists_by_url_in_sheet(Session, url, name)
        IN  /\ r.s.log = ReadOf(name)
            /\ r.found = (url \in KeyValues(store, name))
            /\ r.s.cache = cache
            /\ r.s.store = store

\* the last ingestion read Undefined's key column while the cache held a URL
\* that Undefined does not hold
C18_Witness ==
    /\ \E i \in 1..Len(log) : log[i].op = "col_values" /\ log[i].sheet = UNDEFINED_SHEET
    /\ \E url \in cache \cap ProbeUrls : url \notin KeyValues(store, UNDEFINED_SHEET)

\* a store call that belongs to the header-ensure steps and writes
IsHeaderWrite(c) ==
    \/ c.op \in {"clear", "update"}
    \/ c.op = "append_row" /\ c.row = HEADERS_MASTER

\* C19: once an append has completed on a worksheet (it holds its header and
\* a record), the header-ensure steps of every later append to it write
\* nothing: no clear, no header rewrite, no column addition.
C19_HeaderEnsureIdempotent ==
    [][ \A name \in DOMAIN store :
          Len(store[name]) >= 2
          => \A i \in 1..Len(log') : log'[i].sheet = name => ~IsHeaderWrite(log'[i]) ]_vars

\* position of the first store call on a worksheet
FirstCall(l, name) ==
    CHOOSE i \in 1..Len(l) : l[i].sheet = name /\ \A j \in 1..(i - 1) : l[j].sheet # name
\* the hashtag words of a message in order, control tag left out
TagWordSeq(text) ==
    LET IsUserTag(tok) == tok.kind = "tag" /\ StrLower(Tail(tok.v)) # CONTROL_WORD
        toks == SelectSeq(text, IsUserTag)
    IN  [i \in 1..Len(toks) |-> Tail(toks[i].v)]
\* the worksheets of the data appends of a call list, in order
AppendSeq(l) ==
    LET appends == SelectSeq(l, IsDataAppend)
    IN  [i \in 1..Len(appends) |-> appends[i].sheet]

\* C20: within one ingestion the record is appended to Master before anything
\* is written to another worksheet, tag destinations are checked and written
\* in the order of the tags in the message, and Undefined is handled last.
C20_FanOutOrder ==
    outcome = "Recorded"
    => LET words == TagWordSeq(lastText)
           dest(i) == DestinationOf(words[i])
           Ordered(i, j) ==
               /\ dest(i) \notin {MASTER_SHEET, UNDEFINED_SHEET, dest(j)}
               /\ dest(j) \notin {MASTER_SHEET, UNDEFINED_SHEET}
               /\ \A k \in 1..(j - 1) : dest(k) # dest(j)
       IN  /\ \A i \in 1..Len(log) :
                 (IsWrite(log[i]) /\ log[i].sheet # MASTER_SHEET)
                 => \E j \in 1..(i - 1) :
                       IsDataAppend(log[j]) /\ log[j].sheet = MASTER_SHEET
           /\ \A j \in 1..Len(words) : \A i \in 1..(j - 1) :
                 Ordered(i, j)
                 => /\ FirstCall(log, dest(i)) < FirstCall(log, dest(j))
                    /\ \A m, n \in 1..Len(log) :
                          ( /\ IsDataAppend(log[m]) /\ log[m].sheet = dest(i)
                            /\ IsDataAppend(log[n]) /\ log[n].sheet = dest(j) )
                          => m < n
           /\ \A i \in 1..Len(words) : \E m \in 1..Len(log) : log[m].sheet = dest(i)
           /\ log[Len(log)].sheet = UNDEFINED_SHEET

\* a message tagged #a #b recorded: the appends went to Master, A, B and
\* Undefined in this order
C20_Witness ==
    /\ outcome = "Recorded"
    /\ TagWordSeq(lastText) = <<WordA, WordB>>
    /\ AppendSeq(log) = <<MASTER_SHEET, <<"A">>, <<"B">>, UNDEFINED_SHEET>>

\* the rows of a worksheet that are a header: the 12 captions, or the 12
\* followed by the captions ensure_columns adds
IsHeaderRow(row) ==
    /\ Len(row) >= Len(HEADERS_MASTER)
    /\ SubSeq(row, 1, Len(HEADERS_MASTER)) = HEADERS_MASTER
\* both processes have ended, and each had found its URL absent from the
\* worksheet A, which did not exist when they began, and gone on to write it
BothInitializedA ==
    /\ DOMAIN procs = ProcIds
    /\ \A p \in ProcIds : procs[p].pc = "done" /\ <<"A">> \in procs[p].absent

\* C21: when two concurrent ingestions both write to a destination that does
\* not exist yet, under every interleaving of their store calls neither fails
\* and the destination ends as one header row followed only by the records of
\* the two ingestions: no second header, no record lost.
C21_ConcurrentInitializationConverges ==
    BothInitializedA
    => /\ \A p \in ProcIds : procs[p].outcome # "Error"
       /\ <<"A">> \in DOMAIN store
       /\ LET ws == store[<<"A">>]
          IN  /\ ws # <<>> /\ IsHeaderRow(ws[1])
              /\ \A i \in 2..Len(ws) : \E p \in ProcIds : ws[i] = procs[p].row
              /\ \A p \in ProcIds : Holds(store, <<"A">>, procs[p].url)

\* the update being handled gets as far as the duplicate check on Master: it
\* ends Recorded, DuplicateUrl or Error
ReachesDuplicateCheck == outcome' \in {"Recorded", "DuplicateUrl", "Error"}

\* C22: across updates handled one at a time, once an ingestion of a URL has
\* ended Recorded every later ingestion of that URL ends DuplicateUrl,
\* whatever other URLs were ingested in between.
C22_RecordedAtMostOnce ==
    [][ (lastUrl' \in recorded /\ ReachesDuplicateCheck)
        => outcome' = "DuplicateUrl" ]_vars

\* C23: in every state of sequential executions without external edits of
\* the store, every URL held in the Master cache is in Master's key column,
\* so a check against Master answered from the cache is true of Master.
C23_CacheSoundness ==
    /\ cache \subseteq KeyValues(store, MASTER_SHEET)
    /\ \A url \in ProbeUrls :
          row_exists_by_url_in_sheet(Session, url, MASTER_SHEET).found
          => Holds(store, MASTER_SHEET, url)

\* the URLs of the records of a worksheet: its key column without the caption
RecordUrls(st, name) == KeyValues(st, name) \ {Opaque("URL")}

\* C24: after any sequence of updates handled one at a time, every URL in
\* the key column of a tag destination or of Undefined is also in Master's
\* key column.
C24_MasterIsSuperset ==
    \A name \in DOMAIN store \ {MASTER_SHEET} :
        RecordUrls(store, name) \subseteq RecordUrls(store, MASTER_SHEET)

====
